---- MODULE Spec2Model ----
(***************************************************************************)
(* The 0/1 knapsack solvers of manning-knapsack-problem: exhaustive        *)
(* search, branch and bound, Rod's technique (plain and sorted) and        *)
(* dynamic programming, each run by runAlgorithm on its own copy of the    *)
(* generated items.                                                        *)
(*                                                                         *)
(* A Go slice of Item is a function from 0..n-1 to Item records; the nil   *)
(* slice is the empty function, told apart from an empty non-nil slice by  *)
(* the field nil of a result.                                              *)
(***************************************************************************)
EXTENDS Integers, Sequences, FiniteSets

\* ------------------------------------------------------------------ bounds
ItemsBound == 3
ValueBound == 2
WeightBound == 2
CapacityBound == 4

\* -------------------------------------------------------------- item model
minValue == 1

Len0(items) == Cardinality(DOMAIN items)

\* The nil slice of items.
NilItems == [i \in {} |-> 0]

\* makeItems, the random draws given as vals and wts.
makeItems(numItems, vals, wts) ==
    [i \in 0 .. numItems - 1 |->
        [id |-> i, blockedBy |-> -1, blockList |-> << >>,
         value |-> vals[i], weight |-> wts[i], isSelected |-> FALSE]]

\* makeTestItems: the first five items makeItems draws from the fixed seed
\* 1337, as the recorded test results list them (0(9, 5) 1(10, 4) 2(7, 5)
\* 3(5, 6) 4(4, 5)).
makeTestItems ==
    makeItems(5, [i \in 0 .. 4 |-> CASE i = 0 -> 9 [] i = 1 -> 10 [] i = 2 -> 7
                                     [] i = 3 -> 5 [] OTHER -> 4],
                 [i \in 0 .. 4 |-> CASE i = 0 -> 5 [] i = 1 -> 4 [] i = 2 -> 5
                                     [] i = 3 -> 6 [] OTHER -> 5])

copyItems(items) == [i \in DOMAIN items |-> items[i]]

RECURSIVE sumValuesFrom(_, _, _)
sumValuesFrom(items, addAll, i) ==
    IF i >= Len0(items) THEN 0
    ELSE (IF addAll \/ items[i].isSelected THEN items[i].value ELSE 0)
         + sumValuesFrom(items, addAll, i + 1)

sumValues(items, addAll) == sumValuesFrom(items, addAll, 0)

RECURSIVE sumWeightsFrom(_, _, _)
sumWeightsFrom(items, addAll, i) ==
    IF i >= Len0(items) THEN 0
    ELSE (IF addAll \/ items[i].isSelected THEN items[i].weight ELSE 0)
         + sumWeightsFrom(items, addAll, i + 1)

sumWeights(items, addAll) == sumWeightsFrom(items, addAll, 0)

\* Mutation of solutionValue: the weight comparison is the wrong way round.
solutionValueTurned(items, allowedWeight) ==
    IF sumWeights(items, FALSE) < allowedWeight THEN -1
    ELSE sumValues(items, FALSE)

solutionValue(items, allowedWeight) ==
    IF sumWeights(items, FALSE) > allowedWeight THEN -1
    ELSE sumValues(items, FALSE)

\* What a solver hands back: (solution, value, calls), the working slice as
\* the call left it, and whether the call panicked instead of returning.
\* trace lists the invocations of the call in execution order and tables holds
\* the two tables of dynamicProgramming; both start empty.
Returned(solution, isNil, value, calls, items) ==
    [solution |-> solution, nil |-> isNil, value |-> value, calls |-> calls,
     items |-> items, panic |-> FALSE, trace |-> << >>, tables |-> << >>]

Panicked(items) ==
    [solution |-> NilItems, nil |-> TRUE, value |-> 0, calls |-> 0,
     items |-> items, panic |-> TRUE, trace |-> << >>, tables |-> << >>]

\* One entry of a trace: an invocation of a recursive search for item index
\* nextIndex being entered, or returning (how: "leaf", "pruned" or "inner").
\* entryItems is the working slice as the invocation found it, items the
\* slice at this moment.  For an inner node took1, took2 tell which branches
\* were descended into, value1, value2 are the branches' values, bestValue1
\* the best value when the exclude branch is decided and picked the branch
\* whose solution is returned.
Enter(nextIndex, bestValue, currentValue, remainingValue, items) ==
    [kind |-> "enter", index |-> nextIndex, bestValue |-> bestValue,
     currentValue |-> currentValue, remainingValue |-> remainingValue,
     entryItems |-> items, items |-> items, how |-> "", value |-> 0,
     took1 |-> FALSE, took2 |-> FALSE, value1 |-> 0, value2 |-> 0,
     bestValue1 |-> bestValue, picked |-> ""]

ExitLeaf(enter, value) ==
    [enter EXCEPT !.kind = "exit", !.how = "leaf", !.value = value]

ExitPruned(enter) ==
    [enter EXCEPT !.kind = "exit", !.how = "pruned"]

ExitInner(enter, items, took1, took2, value1, value2, bestValue1, picked) ==
    [enter EXCEPT !.kind = "exit", !.how = "inner", !.items = items,
                  !.took1 = took1, !.took2 = took2,
                  !.value1 = value1, !.value2 = value2,
                  !.bestValue1 = bestValue1, !.picked = picked,
                  !.value = IF picked = "include" THEN value1 ELSE value2]

Traced(r, trace) == [r EXCEPT !.trace = trace]

\* ------------------------------------------------------- exhaustive search
\* Mutation of doExhaustiveSearch: the current call is not counted.
RECURSIVE doExhaustiveSearchUncounted(_, _, _)
doExhaustiveSearchUncounted(items, allowedWeight, nextIndex) ==
    IF nextIndex >= Len0(items)
    THEN Returned(copyItems(items), FALSE,
                  solutionValue(copyItems(items), allowedWeight), 1, items)
    ELSE LET with == doExhaustiveSearchUncounted(
                         [items EXCEPT ![nextIndex].isSelected = TRUE],
                         allowedWeight, nextIndex + 1)
             without == doExhaustiveSearchUncounted(
                         [with.items EXCEPT ![nextIndex].isSelected = FALSE],
                         allowedWeight, nextIndex + 1)
         IN  IF with.value > without.value
             THEN Returned(with.solution, with.nil, with.value,
                           with.calls + without.calls, without.items)
             ELSE Returned(without.solution, without.nil, without.value,
                           with.calls + without.calls, without.items)

\* Mutation of doExhaustiveSearch: the comparison of the branches is turned.
RECURSIVE doExhaustiveSearchTurned(_, _, _)
doExhaustiveSearchTurned(items, allowedWeight, nextIndex) ==
    IF nextIndex >= Len0(items)
    THEN Returned(copyItems(items), FALSE,
                  solutionValue(copyItems(items), allowedWeight), 1, items)
    ELSE LET with == doExhaustiveSearchTurned(
                         [items EXCEPT ![nextIndex].isSelected = TRUE],
                         allowedWeight, nextIndex + 1)
             without == doExhaustiveSearchTurned(
                         [with.items EXCEPT ![nextIndex].isSelected = FALSE],
                         allowedWeight, nextIndex + 1)
         IN  IF with.value < without.value
             THEN Returned(with.solution, with.nil, with.value,
                           with.calls + without.calls + 1, without.items)
             ELSE Returned(without.solution, without.nil, without.value,
                           with.calls + without.calls + 1, without.items)

\* Mutation of withIsBetter: a tie keeps the include branch.
withIsBetterOrEqual(withValue, withoutValue) == withValue >= withoutValue

\* The comparison that decides which branch doExhaustiveSearch returns.
withIsBetter(withValue, withoutValue) == withValue > withoutValue

RECURSIVE doExhaustiveSearch(_, _, _)
doExhaustiveSearch(items, allowedWeight, nextIndex) ==
    IF nextIndex >= Len0(items)
    THEN Traced(Returned(copyItems(items), FALSE,
                         solutionValue(copyItems(items), allowedWeight), 1, items),
                << Enter(nextIndex, 0, 0, 0, items),
                   ExitLeaf(Enter(nextIndex, 0, 0, 0, items),
                            solutionValue(copyItems(items), allowedWeight)) >>)
    ELSE LET with == doExhaustiveSearch(
                         [items EXCEPT ![nextIndex].isSelected = TRUE],
                         allowedWeight, nextIndex + 1)
             without == doExhaustiveSearch(
                         [with.items EXCEPT ![nextIndex].isSelected = FALSE],
                         allowedWeight, nextIndex + 1)
             enter == Enter(nextIndex, 0, 0, 0, items)
             trace(picked) ==
                 << enter >> \o with.trace \o without.trace
                 \o << ExitInner(enter, without.items, TRUE, TRUE,
                                 with.value, without.value, 0, picked) >>
         IN  IF withIsBetter(with.value, without.value)
             THEN Traced(Returned(with.solution, with.nil, with.value,
                                  with.calls + without.calls + 1, without.items),
                         trace("include"))
             ELSE Traced(Returned(without.solution, without.nil, without.value,
                                  with.calls + without.calls + 1, without.items),
                         trace("exclude"))

exhaustiveSearch(items, allowedWeight) ==
    doExhaustiveSearch(items, allowedWeight, 0)

\* -------------------------------------------------------- branch and bound
\* Mutation of doBranchAndBound: the final comparison keeps the worse branch.
RECURSIVE doBranchAndBoundWorse(_, _, _, _, _, _, _)
doBranchAndBoundWorse(items, allowedWeight, nextIndex, bestValue, currentValue, currentWeight, remainingValue) ==
    IF nextIndex >= Len0(items)
    THEN Returned(copyItems(items), FALSE,
                  solutionValue(copyItems(items), allowedWeight), 1, items)
    ELSE IF currentValue + remainingValue < bestValue
    THEN Returned(NilItems, TRUE, 0, 1, items)
    ELSE LET fits == currentWeight + items[nextIndex].weight <= allowedWeight
             test1 == IF fits
                      THEN doBranchAndBoundWorse(
                               [items EXCEPT ![nextIndex].isSelected = TRUE],
                               allowedWeight, nextIndex + 1, bestValue,
                               currentValue + items[nextIndex].value,
                               currentWeight + items[nextIndex].weight,
                               remainingValue - items[nextIndex].value)
                      ELSE Returned(NilItems, TRUE, 0, 1, items)
             bestValue1 == IF fits /\ test1.value > bestValue
                           THEN test1.value ELSE bestValue
             explore == currentValue + remainingValue
                          - test1.items[nextIndex].value > bestValue1
             test2 == IF explore
                      THEN doBranchAndBoundWorse(
                               [test1.items EXCEPT ![nextIndex].isSelected = FALSE],
                               allowedWeight, nextIndex + 1, bestValue1,
                               currentValue, currentWeight,
                               remainingValue - test1.items[nextIndex].value)
                      ELSE Returned(NilItems, TRUE, 0, 1, test1.items)
         IN  IF test1.value <= test2.value
             THEN Returned(test1.solution, test1.nil, test1.value,
                           test1.calls + test2.calls + 1, test2.items)
             ELSE Returned(test2.solution, test2.nil, test2.value,
                           test1.calls + test2.calls + 1, test2.items)

\* Mutation of betterOf: the best value is not raised.
betterOfStale(value, bestValue) == bestValue

\* "if testValue > bestValue { bestValue = testValue }".
betterOf(value, bestValue) == IF value > bestValue THEN value ELSE bestValue

RECURSIVE doBranchAndBound(_, _, _, _, _, _, _)
doBranchAndBound(items, allowedWeight, nextIndex, bestValue, currentValue, currentWeight, remainingValue) ==
    IF nextIndex >= Len0(items)
    THEN Traced(Returned(copyItems(items), FALSE,
                         solutionValue(copyItems(items), allowedWeight), 1, items),
                << Enter(nextIndex, bestValue, currentValue, remainingValue, items),
                   ExitLeaf(Enter(nextIndex, bestValue, currentValue, remainingValue, items),
                            solutionValue(copyItems(items), allowedWeight)) >>)
    ELSE IF currentValue + remainingValue < bestValue
    THEN Traced(Returned(NilItems, TRUE, 0, 1, items),
                << Enter(nextIndex, bestValue, currentValue, remainingValue, items),
                   ExitPruned(Enter(nextIndex, bestValue, currentValue, remainingValue, items)) >>)
    ELSE LET fits == currentWeight + items[nextIndex].weight <= allowedWeight
             test1 == IF fits
                      THEN doBranchAndBound(
                               [items EXCEPT ![nextIndex].isSelected = TRUE],
                               allowedWeight, nextIndex + 1, bestValue,
                               currentValue + items[nextIndex].value,
                               currentWeight + items[nextIndex].weight,
                               remainingValue - items[nextIndex].value)
                      ELSE Returned(NilItems, TRUE, 0, 1, items)
             bestValue1 == IF fits THEN betterOf(test1.value, bestValue)
                           ELSE bestValue
             explore == currentValue + remainingValue
                          - test1.items[nextIndex].value > bestValue1
             test2 == IF explore
                      THEN doBranchAndBound(
                               [test1.items EXCEPT ![nextIndex].isSelected = FALSE],
                               allowedWeight, nextIndex + 1, bestValue1,
                               currentValue, currentWeight,
                               remainingValue - test1.items[nextIndex].value)
                      ELSE Returned(NilItems, TRUE, 0, 1, test1.items)
             enter == Enter(nextIndex, bestValue, currentValue, remainingValue, items)
             trace(picked) ==
                 << enter >> \o test1.trace \o test2.trace
                 \o << ExitInner(enter, test2.items, fits, explore,
                                 test1.value, test2.value, bestValue1, picked) >>
         IN  IF test1.value >= test2.value
             THEN Traced(Returned(test1.solution, test1.nil, test1.value,
                                  test1.calls + test2.calls + 1, test2.items),
                         trace("include"))
             ELSE Traced(Returned(test2.solution, test2.nil, test2.value,
                                  test1.calls + test2.calls + 1, test2.items),
                         trace("exclude"))

branchAndBound(items, allowedWeight) ==
    doBranchAndBound(items, allowedWeight, 0, 0, 0, 0, sumValues(items, TRUE))

\* ---------------------------------------------------------- Rod's technique
\* The ids of the items j # i, from index j on, that items[i] blocks.
RECURSIVE blockListFrom(_, _, _)
blockListFrom(items, i, j) ==
    IF j >= Len0(items) THEN << >>
    ELSE (IF i # j /\ items[i].value >= items[j].value
                   /\ items[i].weight <= items[j].weight
          THEN << items[j].id >> ELSE << >>)
         \o blockListFrom(items, i, j + 1)

\* Mutation of blockListFrom: the dominance test is the wrong way round.
RECURSIVE blockListFromInverted(_, _, _)
blockListFromInverted(items, i, j) ==
    IF j >= Len0(items) THEN << >>
    ELSE (IF i # j /\ items[i].value <= items[j].value
                   /\ items[i].weight >= items[j].weight
          THEN << items[j].id >> ELSE << >>)
         \o blockListFromInverted(items, i, j + 1)

\* Mutation of makeBlockLists: built from the inverted dominance test.
makeBlockListsInverted(items) ==
    [i \in DOMAIN items |->
        [items[i] EXCEPT !.blockList = blockListFromInverted(items, i, 0)]]

makeBlockLists(items) ==
    [i \in DOMAIN items |->
        [items[i] EXCEPT !.blockList = blockListFrom(items, i, 0)]]

RECURSIVE blockItemsFrom(_, _, _)
blockItemsFrom(source, items, k) ==
    IF k > Len(source.blockList) THEN items
    ELSE LET otherId == source.blockList[k]
         IN  blockItemsFrom(source,
                 IF items[otherId].blockedBy < 0
                 THEN [items EXCEPT ![otherId].blockedBy = source.id]
                 ELSE items,
                 k + 1)

\* Mutation of blockItems: a block set by another item is overwritten.
blockItemsOverwriting(source, items) ==
    [i \in DOMAIN items |->
        IF \E k \in 1 .. Len(source.blockList) : source.blockList[k] = i
        THEN [items[i] EXCEPT !.blockedBy = source.id]
        ELSE items[i]]

blockItems(source, items) == blockItemsFrom(source, items, 1)

RECURSIVE unblockItemsFrom(_, _, _)
unblockItemsFrom(source, items, k) ==
    IF k > Len(source.blockList) THEN items
    ELSE LET otherId == source.blockList[k]
         IN  unblockItemsFrom(source,
                 IF items[otherId].blockedBy = source.id
                 THEN [items EXCEPT ![otherId].blockedBy = -1]
                 ELSE items,
                 k + 1)

unblockItems(source, items) == unblockItemsFrom(source, items, 1)

RECURSIVE doRodsTechnique(_, _, _, _, _, _, _)
doRodsTechnique(items, allowedWeight, nextIndex, bestValue, currentValue, currentWeight, remainingValue) ==
    IF nextIndex >= Len0(items)
    THEN Traced(Returned(copyItems(items), FALSE,
                         solutionValue(copyItems(items), allowedWeight), 1, items),
                << Enter(nextIndex, bestValue, currentValue, remainingValue, items),
                   ExitLeaf(Enter(nextIndex, bestValue, currentValue, remainingValue, items),
                            solutionValue(copyItems(items), allowedWeight)) >>)
    ELSE IF currentValue + remainingValue < bestValue
    THEN Traced(Returned(NilItems, TRUE, 0, 1, items),
                << Enter(nextIndex, bestValue, currentValue, remainingValue, items),
                   ExitPruned(Enter(nextIndex, bestValue, currentValue, remainingValue, items)) >>)
    ELSE LET fits == currentWeight + items[nextIndex].weight <= allowedWeight
                     /\ items[nextIndex].blockedBy < 0
             test1 == IF fits
                      THEN doRodsTechnique(
                               [items EXCEPT ![nextIndex].isSelected = TRUE],
                               allowedWeight, nextIndex + 1, bestValue,
                               currentValue + items[nextIndex].value,
                               currentWeight + items[nextIndex].weight,
                               remainingValue - items[nextIndex].value)
                      ELSE Returned(NilItems, TRUE, 0, 1, items)
             bestValue1 == IF fits THEN betterOf(test1.value, bestValue)
                           ELSE bestValue
             blocked == blockItems(test1.items[nextIndex], test1.items)
             test2 == doRodsTechnique(
                          [blocked EXCEPT ![nextIndex].isSelected = FALSE],
                          allowedWeight, nextIndex + 1, bestValue1,
                          currentValue, currentWeight,
                          remainingValue - blocked[nextIndex].value)
             unblocked == unblockItems(test2.items[nextIndex], test2.items)
             enter == Enter(nextIndex, bestValue, currentValue, remainingValue, items)
             trace(picked) ==
                 << enter >> \o test1.trace \o test2.trace
                 \o << ExitInner(enter, unblocked, fits, TRUE,
                                 test1.value, test2.value, bestValue1, picked) >>
         IN  IF test1.value >= test2.value
             THEN Traced(Returned(test1.solution, test1.nil, test1.value,
                                  test1.calls + test2.calls + 1, unblocked),
                         trace("include"))
             ELSE Traced(Returned(test2.solution, test2.nil, test2.value,
                                  test1.calls + test2.calls + 1, unblocked),
                         trace("exclude"))

rodsTechnique(items, allowedWeight) ==
    doRodsTechnique(makeBlockLists(items), allowedWeight, 0,
                    0, 0, 0, sumValues(makeBlockLists(items), TRUE))

\* sort.Slice by longer block list first; the sort is not stable, so every
\* arrangement in which no shorter list precedes a longer one is an outcome.
SortOutcomes(items) ==
    LET n == Len0(items)
        perms == {p \in [0 .. n - 1 -> 0 .. n - 1] :
                     \A i, j \in 0 .. n - 1 : i # j => p[i] # p[j]}
    IN  {[i \in 0 .. n - 1 |-> items[p[i]]] : p \in
            {q \in perms : \A i, j \in 0 .. n - 1 :
                i < j => Len(items[q[i]].blockList) >= Len(items[q[j]].blockList)}}

\* Mutation of resetIds: the ids are left as the sort moved them.
resetIdsSkipped(items) == items

\* The reset of the ids after the sort.
resetIds(items) == [i \in DOMAIN items |-> [items[i] EXCEPT !.id = i]]

\* rodsTechniqueSorted, for the outcome sorted of the sort.
rodsTechniqueSortedFrom(sorted, allowedWeight) ==
    LET rebuilt == makeBlockLists(resetIds(sorted))
    IN  doRodsTechnique(rebuilt, allowedWeight, 0,
                        0, 0, 0, sumValues(rebuilt, TRUE))

rodsTechniqueSorted(items, allowedWeight) ==
    {rodsTechniqueSortedFrom(sorted, allowedWeight) :
        sorted \in SortOutcomes(makeBlockLists(items))}

\* ------------------------------------------------------ dynamic programming
\* The two tables as make leaves them: numItems rows of allowedWeight+1 zeros.
allocateTables(numItems, allowedWeight) ==
    [solutionValue |-> [i \in 0 .. numItems - 1 |-> [w \in 0 .. allowedWeight |-> 0]],
     prevWeight |-> [i \in 0 .. numItems - 1 |-> [w \in 0 .. allowedWeight |-> 0]]]

\* The loop that initializes the row of item 0.
initRow0(tables, items, allowedWeight) ==
    [solutionValue |->
        [tables.solutionValue EXCEPT ![0] = [w \in 0 .. allowedWeight |->
            IF items[0].weight <= w THEN items[0].value ELSE 0]],
     prevWeight |->
        [tables.prevWeight EXCEPT ![0] = [w \in 0 .. allowedWeight |->
            IF items[0].weight <= w THEN -1 ELSE w]]]

\* The body of the loop over w for row i >= 1.
valueWithoutI(tables, i, w) == tables.solutionValue[i - 1][w]

\* Mutation of valueWithI: an item that fills the weight exactly does not fit.
valueWithIStrict(tables, items, i, w) ==
    IF items[i].weight < w
    THEN tables.solutionValue[i - 1][w - items[i].weight] + items[i].value
    ELSE 0

valueWithI(tables, items, i, w) ==
    IF items[i].weight <= w
    THEN tables.solutionValue[i - 1][w - items[i].weight] + items[i].value
    ELSE 0

\* The loop that fills the rows i .. numItems-1.
RECURSIVE fillRows(_, _, _, _)
fillRows(tables, items, allowedWeight, i) ==
    IF i >= Len0(items) THEN tables
    ELSE fillRows(
            [solutionValue |->
                [tables.solutionValue EXCEPT ![i] = [w \in 0 .. allowedWeight |->
                    IF valueWithoutI(tables, i, w) >= valueWithI(tables, items, i, w)
                    THEN valueWithoutI(tables, i, w)
                    ELSE valueWithI(tables, items, i, w)]],
             prevWeight |->
                [tables.prevWeight EXCEPT ![i] = [w \in 0 .. allowedWeight |->
                    IF valueWithoutI(tables, i, w) >= valueWithI(tables, items, i, w)
                    THEN w
                    ELSE w - items[i].weight]]],
            items, allowedWeight, i + 1)

\* Mutation of reconstruct: an item is selected when w equals prevW.
RECURSIVE reconstructTurned(_, _, _, _)
reconstructTurned(items, prevWeight, i, w) ==
    IF i < 0 THEN items
    ELSE LET prevW == prevWeight[i][w]
         IN  IF w # prevW
             THEN reconstructTurned(items, prevWeight, i - 1, w)
             ELSE reconstructTurned([items EXCEPT ![i].isSelected = TRUE],
                              prevWeight, i - 1, prevW)

\* The loop that works backwards from row i and weight w.
RECURSIVE reconstruct(_, _, _, _)
reconstruct(items, prevWeight, i, w) ==
    IF i < 0 THEN items
    ELSE LET prevW == prevWeight[i][w]
         IN  IF w = prevW
             THEN reconstruct(items, prevWeight, i - 1, w)
             ELSE reconstruct([items EXCEPT ![i].isSelected = TRUE],
                              prevWeight, i - 1, prevW)

\* The tables once filled (numItems >= 1, allowedWeight >= 0), entry by entry.
filledTables(items, allowedWeight) ==
    LET tables == fillRows(initRow0(allocateTables(Len0(items), allowedWeight),
                                    items, allowedWeight),
                           items, allowedWeight, 1)
    IN  [solutionValue |-> [i \in 0 .. Len0(items) - 1 |->
                               [w \in 0 .. allowedWeight |-> tables.solutionValue[i][w]]],
         prevWeight |-> [i \in 0 .. Len0(items) - 1 |->
                            [w \in 0 .. allowedWeight |-> tables.prevWeight[i][w]]]]

\* The call panics when there is no item (items[0], solutionValue[-1]) or the
\* weight is negative (make of a negative length, prevWeight[i][-1]).
dynamicProgramming(items, allowedWeight) ==
    IF Len0(items) = 0 \/ allowedWeight < 0
    THEN Panicked(items)
    ELSE LET tables == filledTables(items, allowedWeight)
             selected == reconstruct(items, tables.prevWeight,
                                     Len0(items) - 1, allowedWeight)
         IN  [Returned(selected, FALSE,
                       tables.solutionValue[Len0(items) - 1][allowedWeight],
                       1, selected) EXCEPT !.tables = tables]

\* ------------------------------------------------------------ state machine
VARIABLES items, allowedWeight, ran, result
vars == << items, allowedWeight, ran, result >>

Algorithms == {"exhaustiveSearch", "branchAndBound", "rodsTechnique",
               "rodsTechniqueSorted", "dynamicProgramming"}

\* The entry of an algorithm that has not been run.
NotRun == [solution |-> NilItems, nil |-> TRUE, value |-> 0, calls |-> 0,
           items |-> NilItems, panic |-> FALSE, trace |-> << >>, tables |-> << >>]

Values == minValue .. ValueBound
Weights == 1 .. WeightBound

\* The item slices makeItems can draw.
GeneratedItems ==
    UNION {{makeItems(n, vals, wts) :
               vals \in [0 .. n - 1 -> Values], wts \in [0 .. n - 1 -> Weights]} :
           n \in 0 .. ItemsBound}

Init ==
    /\ \/ /\ items \in GeneratedItems
          /\ allowedWeight \in -1 .. CapacityBound
       \/ /\ items = makeTestItems
          /\ allowedWeight = 14
    /\ ran = {}
    /\ result = [a \in Algorithms |-> NotRun]

\* runAlgorithm(exhaustiveSearch, items, allowedWeight): the algorithm runs
\* on its own copy of the items and what it returns is kept.
RunExhaustiveSearch ==
    /\ "exhaustiveSearch" \notin ran
    /\ ran' = ran \cup {"exhaustiveSearch"}
    /\ result' = [result EXCEPT !["exhaustiveSearch"] =
                      exhaustiveSearch(copyItems(items), allowedWeight)]
    /\ UNCHANGED << items, allowedWeight >>

RunBranchAndBound ==
    /\ "branchAndBound" \notin ran
    /\ ran' = ran \cup {"branchAndBound"}
    /\ result' = [result EXCEPT !["branchAndBound"] =
                      branchAndBound(copyItems(items), allowedWeight)]
    /\ UNCHANGED << items, allowedWeight >>

RunRodsTechnique ==
    /\ "rodsTechnique" \notin ran
    /\ ran' = ran \cup {"rodsTechnique"}
    /\ result' = [result EXCEPT !["rodsTechnique"] =
                      rodsTechnique(copyItems(items), allowedWeight)]
    /\ UNCHANGED << items, allowedWeight >>

RunRodsTechniqueSorted ==
    /\ "rodsTechniqueSorted" \notin ran
    /\ \E r \in rodsTechniqueSorted(copyItems(items), allowedWeight) :
          result' = [result EXCEPT !["rodsTechniqueSorted"] = r]
    /\ ran' = ran \cup {"rodsTechniqueSorted"}
    /\ UNCHANGED << items, allowedWeight >>

RunDynamicProgramming ==
    /\ "dynamicProgramming" \notin ran
    /\ ran' = ran \cup {"dynamicProgramming"}
    /\ result' = [result EXCEPT !["dynamicProgramming"] =
                      dynamicProgramming(copyItems(items), allowedWeight)]
    /\ UNCHANGED << items, allowedWeight >>

Next ==
    \/ RunExhaustiveSearch
    \/ RunBranchAndBound
    \/ RunRodsTechnique
    \/ RunRodsTechniqueSorted
    \/ RunDynamicProgramming

Spec == Init /\ [][Next]_vars

\* ------------------------------------------------------------- properties
\* The preconditions of solve: some item, and a weight limit that is not
\* negative (values and weights are positive in every generated slice).
ValidInput == Len0(items) >= 1 /\ allowedWeight >= 0

SelectedWeight(a) == sumWeights(result[a].solution, FALSE)
SelectedValue(a) == sumValues(result[a].solution, FALSE)

\* C1: on valid input the items selected in the selection an algorithm
\* returns weigh no more than the allowed weight, for each of the five
\* algorithms.
C1_SelectionFits ==
    ValidInput => \A a \in ran : SelectedWeight(a) <= allowedWeight

\* All five algorithms have returned a selection that fills a positive
\* allowed weight exactly although the items together are heavier.
C1_Witness ==
    /\ ValidInput /\ ran = Algorithms /\ allowedWeight > 0
    /\ sumWeights(items, TRUE) > allowedWeight
    /\ \A a \in Algorithms : ~result[a].nil /\ SelectedWeight(a) = allowedWeight

RECURSIVE TotalOver(_, _)
TotalOver(f, S) ==
    IF S = {} THEN 0
    ELSE LET x == CHOOSE y \in S : TRUE IN f[x] + TotalOver(f, S \ {x})

\* The greatest total value of a set of items of total weight <= capacity.
Optimum(its, capacity) ==
    LET value == [i \in DOMAIN its |-> its[i].value]
        weight == [i \in DOMAIN its |-> its[i].weight]
        feasible == {S \in SUBSET DOMAIN its : TotalOver(weight, S) <= capacity}
    IN  CHOOSE m \in {TotalOver(value, S) : S \in feasible} :
            \A S \in feasible : TotalOver(value, S) <= m

\* C2: on valid input exhaustiveSearch, branchAndBound and dynamicProgramming
\* each return the greatest total value of any subset of the items whose
\* total weight is within the allowed weight.
C2_ExactOptimum ==
    ValidInput =>
        \A a \in ran \cap {"exhaustiveSearch", "branchAndBound", "dynamicProgramming"} :
            result[a].value = Optimum(items, allowedWeight)

\* The three have run on items that do not all fit, and the optimum leaves
\* out an item and takes another.
C2_Witness ==
    /\ ValidInput
    /\ {"exhaustiveSearch", "branchAndBound", "dynamicProgramming"} \subseteq ran
    /\ Optimum(items, allowedWeight) > 0
    /\ Optimum(items, allowedWeight) < sumValues(items, TRUE)
    /\ result["branchAndBound"].value = Optimum(items, allowedWeight)

\* C3: on the same items and allowed weight rodsTechnique returns the value
\* branchAndBound returns, and so does rodsTechniqueSorted.
C3_RodsEqualsBranchAndBound ==
    "branchAndBound" \in ran =>
        \A a \in ran \cap {"rodsTechnique", "rodsTechniqueSorted"} :
            result[a].value = result["branchAndBound"].value

\* Both variants have run next to branchAndBound on items of which one
\* blocks another, with a positive value that is not the value of all items.
C3_Witness ==
    /\ {"branchAndBound", "rodsTechnique", "rodsTechniqueSorted"} \subseteq ran
    /\ ValidInput
    /\ \E i \in DOMAIN items : Len(result["rodsTechnique"].items[i].blockList) > 0
    /\ result["rodsTechnique"].value > 0
    /\ result["rodsTechnique"].value < sumValues(items, TRUE)
    /\ result["rodsTechniqueSorted"].value = result["branchAndBound"].value

\* C4: on valid input every algorithm returns a selection that is not nil,
\* has as many items as the input, and whose selected items are worth the
\* returned value.
C4_SelectionOverAllItems ==
    ValidInput =>
        \A a \in ran :
            /\ ~result[a].nil
            /\ Len0(result[a].solution) = Len0(items)
            /\ result[a].value = SelectedValue(a)

\* C5: for the five test items and allowed weight 14 every algorithm returns
\* value 26 and a selection of weight <= 14.
C5_TestItems ==
    (items = makeTestItems /\ allowedWeight = 14) =>
        \A a \in ran : result[a].value = 26 /\ SelectedWeight(a) <= 14

\* All five algorithms have run on the test items.
C5_Witness ==
    /\ items = makeTestItems /\ allowedWeight = 14
    /\ ran = Algorithms
    /\ \A a \in Algorithms : result[a].value = 26 /\ ~result[a].nil

\* C6: with allowed weight 0 and at least one item every algorithm returns
\* value 0 and a selection over the items in which no item is selected.
C6_ZeroCapacity ==
    (allowedWeight = 0 /\ Len0(items) >= 1) =>
        \A a \in ran :
            /\ result[a].value = 0
            /\ ~result[a].nil
            /\ Len0(result[a].solution) = Len0(items)
            /\ \A i \in DOMAIN result[a].solution : ~result[a].solution[i].isSelected

\* The values an algorithm can return for the items and a capacity.
ValuesOf(a, its, capacity) ==
    CASE a = "exhaustiveSearch" -> {exhaustiveSearch(its, capacity).value}
      [] a = "branchAndBound" -> {branchAndBound(its, capacity).value}
      [] a = "rodsTechnique" -> {rodsTechnique(its, capacity).value}
      [] a = "rodsTechniqueSorted" ->
            {r.value : r \in rodsTechniqueSorted(its, capacity)}
      [] OTHER -> {dynamicProgramming(its, capacity).value}

\* C7: for the same items, the value an algorithm returns for an allowed
\* weight is at least the value it returns for any smaller allowed weight
\* that is not negative.
C7_Monotone ==
    ValidInput =>
        \A a \in ran : \A c1 \in 0 .. allowedWeight :
            \A v \in ValuesOf(a, copyItems(items), c1) : v <= result[a].value

\* All five have run with an allowed weight for which the value is greater
\* than for the allowed weight one less.
C7_Witness ==
    /\ ValidInput /\ ran = Algorithms /\ allowedWeight >= 2
    /\ \A a \in Algorithms :
          \A v \in ValuesOf(a, copyItems(items), allowedWeight - 1) :
              0 < v /\ v < result[a].value

\* C8: on the same input exhaustiveSearch counts at least as many calls as
\* branchAndBound, which counts at least as many as rodsTechnique.
C8_CallOrdering ==
    {"exhaustiveSearch", "branchAndBound", "rodsTechnique"} \subseteq ran =>
        /\ result["exhaustiveSearch"].calls >= result["branchAndBound"].calls
        /\ result["branchAndBound"].calls >= result["rodsTechnique"].calls

\* C9: given no item or a negative allowed weight, no algorithm returns a
\* selection and a value; each fails instead.
C9_MalformedFailsFast ==
    ~ValidInput => \A a \in ran : result[a].panic

RECURSIVE Pow2(_)
Pow2(n) == IF n = 0 THEN 1 ELSE 2 * Pow2(n - 1)

\* C10: for n items exhaustiveSearch returns the call count 2^(n+1) - 1,
\* whatever the values, the weights and the allowed weight.
C10_ExhaustiveCalls ==
    "exhaustiveSearch" \in ran =>
        result["exhaustiveSearch"].calls = Pow2(Len0(items) + 1) - 1

\* exhaustiveSearch has run on several items, some heavier than the allowed
\* weight.
C10_Witness ==
    /\ "exhaustiveSearch" \in ran
    /\ Len0(items) >= 3
    /\ \E i \in DOMAIN items : items[i].weight > allowedWeight
    /\ result["exhaustiveSearch"].calls >= 15

\* ------------------------------------------------- properties of the search
RodsVariants == {"rodsTechnique", "rodsTechniqueSorted"}
Bounded == {"branchAndBound", "rodsTechnique", "rodsTechniqueSorted"}
Recursive == {"exhaustiveSearch"} \cup Bounded

\* The trace entries of algorithm a at which an invocation returns.
Exits(a) ==
    {result[a].trace[p] : p \in {q \in DOMAIN result[a].trace :
                                     result[a].trace[q].kind = "exit"}}

InnerExits(a) == {e \in Exits(a) : e.how = "inner"}

\* The node of item 0, the last to return.
Root(a) == result[a].trace[Len(result[a].trace)]

\* C11: in exhaustiveSearch on valid input, whenever the include branch and the exclude
\* branch of an item yield equal scores, the selection of the include branch
\* is the one returned.
C11_TiesFavorInclude ==
    ("exhaustiveSearch" \in ran /\ ValidInput) =>
        \A e \in InnerExits("exhaustiveSearch") :
            e.value1 = e.value2 => e.picked = "include"

\* C11 as amended: on equal scores the selection of the exclude branch is
\* returned (the include branch's only when its score is strictly higher);
\* at the node of item 0 the returned selection then leaves item 0 out.
C11_TiesFavorExclude ==
    "exhaustiveSearch" \in ran =>
        /\ \A e \in InnerExits("exhaustiveSearch") :
              /\ e.value1 = e.value2 => e.picked = "exclude"
              /\ e.picked = "include" <=> e.value1 > e.value2
        /\ (Len0(items) >= 1 /\ Root("exhaustiveSearch").value1
                                  = Root("exhaustiveSearch").value2)
              => ~result["exhaustiveSearch"].solution[0].isSelected

\* exhaustiveSearch has met a tie of two feasible branches at the node of
\* item 0, and a node where the include branch was strictly better.
C11_Witness ==
    /\ "exhaustiveSearch" \in ran /\ ValidInput
    /\ Root("exhaustiveSearch").value1 = Root("exhaustiveSearch").value2
    /\ Root("exhaustiveSearch").value1 > 0
    /\ ~result["exhaustiveSearch"].solution[0].isSelected
    /\ \E e \in InnerExits("exhaustiveSearch") : e.picked = "include"

\* C12: on valid input, in doRodsTechnique the exclude branch of an item is descended into
\* only if currentValue + remainingValue - item.value > bestValueSoFar, as in
\* branchAndBound, and is skipped without a call otherwise.
C12_RodsExcludeBound ==
    ValidInput => \A a \in ran \cap RodsVariants : \A e \in InnerExits(a) :
        e.took2 <=> (e.currentValue + e.remainingValue
                        - e.entryItems[e.index].value > e.bestValue1)

\* C13: every invocation of doRodsTechnique returns with each item's
\* blockedBy as it found it, and after rodsTechnique or rodsTechniqueSorted
\* has returned no item of the working slice is blocked.
C13_BlocksReleased ==
    \A a \in ran \cap RodsVariants :
        /\ \A e \in Exits(a) : \A i \in DOMAIN e.items :
              e.items[i].blockedBy = e.entryItems[i].blockedBy
        /\ \A i \in DOMAIN result[a].items : result[a].items[i].blockedBy = -1

\* Rod's technique has returned from an inner node that was entered with an
\* item blocked by another node and that itself blocks an item, and from a
\* pruned node entered with an item blocked.
C13_Witness ==
    /\ "rodsTechnique" \in ran /\ ValidInput
    /\ \E e \in InnerExits("rodsTechnique") :
          /\ \E i \in DOMAIN e.entryItems : e.entryItems[i].blockedBy >= 0
          /\ \E i \in DOMAIN e.entryItems :
                /\ e.entryItems[i].blockedBy < 0
                /\ \E k \in 1 .. Len(e.entryItems[e.index].blockList) :
                      e.entryItems[e.index].blockList[k] = i
    /\ \E e \in Exits("rodsTechnique") :
          e.how = "pruned" /\ \E i \in DOMAIN e.entryItems : e.entryItems[i].blockedBy >= 0

\* The number of invocations in the trace of algorithm a.
Invocations(a) ==
    Cardinality({p \in DOMAIN result[a].trace : result[a].trace[p].kind = "enter"})

\* C14: on valid input the step count branchAndBound returns is the number of invocations
\* of doBranchAndBound performed; a skipped branch adds nothing to it.
C14_CallsAreInvocations ==
    ("branchAndBound" \in ran /\ ValidInput) =>
        result["branchAndBound"].calls = Invocations("branchAndBound")

\* The greatest score of the leaves evaluated before position p of a trace,
\* 0 if there is none.
BestLeafBefore(trace, p) ==
    LET scores == {trace[q].value : q \in {r \in 1 .. p - 1 :
                       trace[r].kind = "exit" /\ trace[r].how = "leaf"}}
    IN  IF scores = {} THEN 0
        ELSE CHOOSE m \in scores : \A x \in scores : x <= m

\* C15: on valid input, at every entry to doBranchAndBound and to
\* doRodsTechnique the bestValue argument is the greatest score of the full
\* assignments evaluated so far (0 if none), so it never decreases from one
\* entry to a later one.
C15_BestValueIsBestLeaf ==
    ValidInput =>
        \A a \in ran \cap Bounded :
            \A p \in DOMAIN result[a].trace :
                result[a].trace[p].kind = "enter" =>
                    /\ result[a].trace[p].bestValue
                          = BestLeafBefore(result[a].trace, p)
                    /\ \A q \in 1 .. p - 1 :
                          result[a].trace[q].kind = "enter" =>
                              result[a].trace[q].bestValue
                                  <= result[a].trace[p].bestValue

\* Two entries of the search of a, the later with the greater best value,
\* the earlier with a best value of at least low.
BestValueRaised(a, low) ==
    \E p, q \in DOMAIN result[a].trace :
        /\ p < q
        /\ result[a].trace[p].kind = "enter"
        /\ result[a].trace[q].kind = "enter"
        /\ low <= result[a].trace[p].bestValue
        /\ result[a].trace[p].bestValue < result[a].trace[q].bestValue

\* Each of the three bounded searches was entered after a leaf had raised
\* the best value, and Rod's technique after a second leaf had raised it
\* again.
C15_Witness ==
    /\ ValidInput /\ Bounded \subseteq ran
    /\ \A a \in Bounded : BestValueRaised(a, 0)
    /\ BestValueRaised("rodsTechnique", 1)

\* The items 0 .. i of a slice.
Prefix(its, i) == [j \in 0 .. i |-> its[j]]

\* Whether the best choice for items 0 .. i within budget w takes item i:
\* it fits and taking it is worth strictly more than leaving it.
TakesItem(its, i, w) ==
    /\ its[i].weight <= w
    /\ \/ i = 0
       \/ Optimum(Prefix(its, i - 1), w - its[i].weight) + its[i].value
             > Optimum(Prefix(its, i - 1), w)

\* C16: once dynamicProgramming has filled its tables, solutionValue[i][w]
\* is the greatest total value of a subset of the items 0 .. i of total
\* weight <= w, and prevWeight[i][w] is w where item i is left out,
\* w - weight(i) where it is taken for i >= 1, and -1 where item 0 is taken.
C16_Tables ==
    ("dynamicProgramming" \in ran /\ ~result["dynamicProgramming"].panic) =>
        LET tables == result["dynamicProgramming"].tables
        IN  \A i \in 0 .. Len0(items) - 1 : \A w \in 0 .. allowedWeight :
                /\ tables.solutionValue[i][w] = Optimum(Prefix(items, i), w)
                /\ tables.prevWeight[i][w] =
                      IF ~TakesItem(items, i, w) THEN w
                      ELSE IF i = 0 THEN -1 ELSE w - items[i].weight

\* dynamicProgramming has filled a table in which item 0 is taken, a later
\* item is taken, and a later item that fits is left out.
C16_Witness ==
    /\ "dynamicProgramming" \in ran /\ ~result["dynamicProgramming"].panic
    /\ LET tables == result["dynamicProgramming"].tables
       IN  /\ \E w \in 0 .. allowedWeight : tables.prevWeight[0][w] = -1
           /\ \E i \in 1 .. Len0(items) - 1 : \E w \in 0 .. allowedWeight :
                 /\ tables.prevWeight[i][w] = w - items[i].weight
                 /\ tables.solutionValue[i][w] > tables.solutionValue[i - 1][w]
           /\ \E i \in 1 .. Len0(items) - 1 : \E w \in 0 .. allowedWeight :
                 items[i].weight <= w /\ tables.prevWeight[i][w] = w

\* The working slice with which the recursive search of a starts.
StartItems(a) == result[a].trace[1].items

\* Item i of a slice dominates item j.
Dominates(its, i, j) ==
    i # j /\ its[i].value >= its[j].value /\ its[i].weight <= its[j].weight

\* C17: when the recursive search of rodsTechnique or rodsTechniqueSorted
\* starts, the item at position i has id i, is not blocked, and its blockList
\* holds exactly the positions j # i it dominates; in rodsTechniqueSorted the
\* items are moreover a permutation of the input in non-increasing order of
\* blockList length.
C17_StartOfSearch ==
    \A a \in ran \cap RodsVariants :
        LET start == StartItems(a)
            n == Len0(items)
        IN  /\ Len0(start) = n
            /\ \A i \in 0 .. n - 1 :
                  /\ start[i].id = i
                  /\ start[i].blockedBy = -1
                  /\ {start[i].blockList[k] : k \in 1 .. Len(start[i].blockList)}
                        = {j \in 0 .. n - 1 : Dominates(start, i, j)}
                  /\ Len(start[i].blockList)
                        = Cardinality({j \in 0 .. n - 1 : Dominates(start, i, j)})
            /\ a = "rodsTechnique" =>
                  \A i \in 0 .. n - 1 : /\ start[i].value = items[i].value
                                        /\ start[i].weight = items[i].weight
            /\ a = "rodsTechniqueSorted" =>
                  /\ \E p \in [0 .. n - 1 -> 0 .. n - 1] :
                        /\ \A i, j \in 0 .. n - 1 : i # j => p[i] # p[j]
                        /\ \A i \in 0 .. n - 1 :
                              /\ start[i].value = items[p[i]].value
                              /\ start[i].weight = items[p[i]].weight
                  /\ \A i, j \in 0 .. n - 1 :
                        i < j => Len(start[i].blockList) >= Len(start[j].blockList)

\* rodsTechniqueSorted has started its search on items it had to reorder:
\* the first input item blocks fewer items than a later one.
C17_Witness ==
    /\ RodsVariants \subseteq ran /\ Len0(items) >= 2
    /\ LET start == StartItems("rodsTechniqueSorted")
           plain == StartItems("rodsTechnique")
       IN  /\ \E j \in DOMAIN plain :
                 Len(plain[0].blockList) < Len(plain[j].blockList)
           /\ \E i \in DOMAIN start : start[i].value # items[i].value
           /\ \E i \in DOMAIN start : Len(start[i].blockList) > 0

\* C18: on valid input, when an invocation of a recursive solver for item index k returns,
\* isSelected of every item of index >= k is as the invocation found it, and
\* after exhaustiveSearch, branchAndBound or rodsTechnique has returned no
\* item of the working slice is selected.
C18_SelectionRestored ==
    ValidInput => \A a \in ran \cap Recursive :
        /\ \A e \in Exits(a) : \A i \in DOMAIN e.items :
              i >= e.index => e.items[i].isSelected = e.entryItems[i].isSelected
        /\ \A i \in DOMAIN result[a].items : ~result[a].items[i].isSelected

====
